---------------------------- MODULE Spec2Model ----------------------------
(***************************************************************************)
(* Model of the dashboard's dataset-selection panel                        *)
(* (ui/litellm-dashboard/src/components/eval_models.tsx).                  *)
(*                                                                         *)
(* The component EvalModels keeps four pieces of React state (evalModels,  *)
(* loading, error, updating).  One fetch is issued when the component is   *)
(* mounted with an access token; every checkbox change runs the async      *)
(* handler handleCheckboxChange, which suspends once, at the update call.  *)
(* A handler invocation is therefore two steps of the model: the           *)
(* synchronous part up to the await, and the continuation that runs when   *)
(* the call resolves or rejects.  Between the two, other handlers and      *)
(* other continuations may run (one logical thread, cooperative).          *)
(*                                                                         *)
(* The external store behind evalModelsCall / evalModelsUpdateCall is not  *)
(* part of the component; it is modelled from its documented contract      *)
(* (a snapshot-based update keyed by model name).                          *)
(*                                                                         *)
(* The second component, IdentityEvalChart                                 *)
(* (ui/litellm-dashboard/src/components/identity_eval_chart.tsx), fetches  *)
(* the evaluation results once and turns them, per model, into a date axis *)
(* and score series (processChartData).  It shares nothing with the panel  *)
(* but the accessToken prop; it has its own specification, SpecChart.      *)
(***************************************************************************)
EXTENDS Integers, Sequences, FiniteSets

\* ------------------------------------------------------------------ bounds
\* How many times the handler is run to its update call in one behaviour of
\* Spec (the handler tried with every argument).
MaxCalls == 2
\* How many clicks reach the update call in one behaviour of SpecUI (the
\* handler called from the rendered checkboxes).
MaxClicks == 3
\* How many date keys the fetched evaluation results have at most.
MaxDates == 3

\* --------------------------------------------------------------- constants
NULL == "null"

\* eval_models.tsx 31-39
SUPPORTED_DATASETS ==
  << "AIME24", "AIME25", "GPQA_DIAMOND", "MMLU_PRO_LAW",
     "MMLU_PRO_BUSINESS", "MMLU_PRO_PHILOSOPHY", "LIVE_CODE_BENCH" >>

Catalog == { SUPPORTED_DATASETS[i] : i \in DOMAIN SUPPORTED_DATASETS }

\* The columns of the table the operator clicks in.
ToggleKeys == { SUPPORTED_DATASETS[1], SUPPORTED_DATASETS[2] }

\* The models the external store knows: internal id and stable name.
\* The two are different strings (fetch is keyed by id, update by name).
ServerModels ==
  << [model_id |-> "m1", model_name |-> "gpt-a"],
     [model_id |-> "m2", model_name |-> "gpt-x"] >>

ModelNames == { ServerModels[i].model_name : i \in DOMAIN ServerModels }

\* A model id no row of the cache has (the handler's "not found" path).
UnknownModelId == "m0"

\* The dataset_keys the store may hold for a model when the session starts.
InitialKeySeqs == { << >>, << "AIME24" >> }

\* The values of the accessToken prop.
AccessTokens == { NULL, "sk-token" }

VARIABLES
  accessToken,   \* the prop of the component (fixed for one mounted instance)
  evalModels,    \* useState<ModelData[]>: the local configuration cache
  loading,       \* useState(true)
  error,         \* useState<string | null>(null)
  updating,      \* useState<string | null>(null): the "currently updating" marker
  fetchPending,  \* an evalModelsCall has been issued and has not returned
  calls,         \* every evalModelsUpdateCall issued, with the closure of its handler
  message,       \* how often message.success / message.error were called
  store          \* the external store: model name -> dataset_keys

panelVars == << accessToken, evalModels, loading, error, updating,
               fetchPending, calls, message, store >>

\* The state of IdentityEvalChart.
VARIABLES
  evalData,          \* useState<EvalData>({}): the entries of the object, in key order
  chartLoading,      \* useState(true)
  chartError,        \* useState<string | null>(null)
  chartFetchPending, \* an identityEvalCall has been issued and has not returned
  selectedDataset,   \* useState<string>("all")
  charts,            \* the data each model's chart was given last
  engine             \* which Array.prototype.sort the page runs on

chartVars == << evalData, chartLoading, chartError, chartFetchPending,
                selectedDataset, charts, engine >>

vars == << panelVars, chartVars >>

\* ---------------------------------------------------------------- helpers
Range(s) == { s[i] : i \in DOMAIN s }

\* Array.prototype.includes
Includes(keys, key) == \E i \in DOMAIN keys : keys[i] = key

\* Array.prototype.find on model_id: the index of the first match, 0 for
\* undefined.
FindIndex(models, modelId) ==
  LET I == { i \in DOMAIN models : models[i].model_id = modelId }
  IN  IF I = {} THEN 0 ELSE CHOOSE i \in I : \A j \in I : i <= j

\* The dataset_keys of the row find() returns.
KeysOf(models, modelId) == models[FindIndex(models, modelId)].dataset_keys

NoDuplicates(keys) ==
  \A i, j \in DOMAIN keys : keys[i] = keys[j] => i = j

\* A call record of `calls`:
\*   modelId, datasetKey, checked   the handler's arguments
\*   evalModels                     the evalModels the handler closed over
\*   newDatasetKeys, modelsData     the handler's locals
\*   status                         "pending" | "resolved" | "rejected"
\*   applied                        0, or the rank of the store's write of it
\*   prior                          the calls that had resolved when it started
Pending(i)  == calls[i].status = "pending"
Resolved(i) == calls[i].status = "resolved"
Rejected(i) == calls[i].status = "rejected"
InFlight    == { i \in DOMAIN calls : Pending(i) }
ResolvedSet == { i \in DOMAIN calls : Resolved(i) }
Applied     == { i \in DOMAIN calls : calls[i].applied # 0 }

\* ------------------------------------------------- handleCheckboxChange
\* A faulty variant of newDatasetKeys: the filter keeps the wrong keys.
newDatasetKeys_FilterInverted(dataset_keys, datasetKey, checked) ==
  IF checked /\ ~Includes(dataset_keys, datasetKey)
    THEN Append(dataset_keys, datasetKey)
  ELSE IF ~checked /\ Includes(dataset_keys, datasetKey)
    THEN SelectSeq(dataset_keys, LAMBDA key : key = datasetKey)
  ELSE dataset_keys

\* A faulty variant of newDatasetKeys: the key is pushed without the
\* includes() test.
newDatasetKeys_NoIncludesGuard(dataset_keys, datasetKey, checked) ==
  IF checked
    THEN Append(dataset_keys, datasetKey)
  ELSE IF ~checked /\ Includes(dataset_keys, datasetKey)
    THEN SelectSeq(dataset_keys, LAMBDA key : key # datasetKey)
  ELSE dataset_keys

\* Lines 80-88: the new list of dataset keys of the toggled model.
newDatasetKeys(dataset_keys, datasetKey, checked) ==
  IF checked /\ ~Includes(dataset_keys, datasetKey)
    THEN Append(dataset_keys, datasetKey)
  ELSE IF ~checked /\ Includes(dataset_keys, datasetKey)
    THEN SelectSeq(dataset_keys, LAMBDA key : key # datasetKey)
  ELSE dataset_keys

\* A faulty variant of modelsData: every row carries the new keys.
modelsData_EveryRow(models, modelId, keys) ==
  [ i \in DOMAIN models |->
      [ model_id     |-> models[i].model_name,
        dataset_keys |-> keys ] ]

\* A faulty variant of modelsData: the rows are keyed by the internal id.
modelsData_KeyedById(models, modelId, keys) ==
  [ i \in DOMAIN models |->
      [ model_id     |-> models[i].model_id,
        dataset_keys |-> IF models[i].model_id = modelId
                           THEN keys
                           ELSE models[i].dataset_keys ] ]

\* Lines 102-106: the payload of the update call, one row per cached model.
modelsData(models, modelId, keys) ==
  [ i \in DOMAIN models |->
      [ model_id     |-> models[i].model_name,
        dataset_keys |-> IF models[i].model_id = modelId
                           THEN keys
                           ELSE models[i].dataset_keys ] ]

\* Lines 112-116: the functional update handed to setEvalModels.
setEvalModelsUpdater(prevModels, modelId, keys) ==
  [ i \in DOMAIN prevModels |->
      IF prevModels[i].model_id = modelId
        THEN [ prevModels[i] EXCEPT !.dataset_keys = keys ]
        ELSE prevModels[i] ]

\* Lines 129-139 and 175: the table is rendered (not the spinner, not the
\* error panel) and the row's checkboxes are not disabled.
CheckboxEnabled(modelId) ==
  /\ ~loading
  /\ error = NULL
  /\ updating # modelId

\* A faulty variant of the handler: the local state is updated before the
\* update call is awaited (optimistic update).
handleCheckboxChange_Optimistic(modelId, datasetKey, checked) ==
  LET idx == FindIndex(evalModels, modelId) IN
  /\ CheckboxEnabled(modelId)
  /\ IF idx = 0
       THEN /\ updating' = NULL
            /\ UNCHANGED << calls, evalModels >>
       ELSE LET keys == newDatasetKeys(evalModels[idx].dataset_keys,
                                       datasetKey, checked)
            IN  /\ updating' = modelId
                /\ evalModels' = setEvalModelsUpdater(evalModels, modelId, keys)
                /\ calls' = Append(calls,
                     [ modelId        |-> modelId,
                       datasetKey     |-> datasetKey,
                       checked        |-> checked,
                       evalModels     |-> evalModels,
                       newDatasetKeys |-> keys,
                       modelsData     |-> modelsData(evalModels, modelId, keys),
                       status         |-> "pending",
                       applied        |-> 0,
                       prior          |-> ResolvedSet ])
  /\ UNCHANGED << accessToken, loading, error, fetchPending, message, store >>

\* Lines 72-109: the synchronous part of the handler, up to the await.  The
\* handler reads the evalModels of the render it was created in, which is
\* the committed state when the event is dispatched.  A model id that
\* find() does not return leaves through `return` and the finally block.
handleCheckboxChange(modelId, datasetKey, checked) ==
  LET idx == FindIndex(evalModels, modelId) IN
  /\ CheckboxEnabled(modelId)
  /\ IF idx = 0
       THEN /\ updating' = NULL
            /\ UNCHANGED calls
       ELSE LET keys == newDatasetKeys(evalModels[idx].dataset_keys,
                                       datasetKey, checked)
            IN  /\ updating' = modelId
                /\ calls' = Append(calls,
                     [ modelId        |-> modelId,
                       datasetKey     |-> datasetKey,
                       checked        |-> checked,
                       evalModels     |-> evalModels,
                       newDatasetKeys |-> keys,
                       modelsData     |-> modelsData(evalModels, modelId, keys),
                       status         |-> "pending",
                       applied        |-> 0,
                       prior          |-> ResolvedSet ])
  /\ UNCHANGED << accessToken, evalModels, loading, error, fetchPending,
                  message, store >>

\* A faulty variant of the resolved continuation: the new state is built
\* from the evalModels the handler closed over, not from the previous state.
evalModelsUpdateCallResolved_StaleClosure(i) ==
  /\ Pending(i)
  /\ calls[i].applied # 0
  /\ evalModels' = setEvalModelsUpdater(calls[i].evalModels, calls[i].modelId,
                                        calls[i].newDatasetKeys)
  /\ message' = [ message EXCEPT !.success = @ + 1 ]
  /\ updating' = NULL
  /\ calls' = [ calls EXCEPT ![i].status = "resolved" ]
  /\ UNCHANGED << accessToken, loading, error, fetchPending, store >>

\* Lines 111-118 and 122-124: the continuation after the call resolved.
evalModelsUpdateCallResolved(i) ==
  /\ Pending(i)
  /\ calls[i].applied # 0
  /\ evalModels' = setEvalModelsUpdater(evalModels, calls[i].modelId,
                                        calls[i].newDatasetKeys)
  /\ message' = [ message EXCEPT !.success = @ + 1 ]
  /\ updating' = NULL
  /\ calls' = [ calls EXCEPT ![i].status = "resolved" ]
  /\ UNCHANGED << accessToken, loading, error, fetchPending, store >>

\* A faulty variant of the rejected continuation: the marker is cleared on
\* the success path only (no finally block).
evalModelsUpdateCallRejected_KeepsMarker(i) ==
  /\ Pending(i)
  /\ message' = [ message EXCEPT !.error = @ + 1 ]
  /\ calls' = [ calls EXCEPT ![i].status = "rejected" ]
  /\ UNCHANGED << accessToken, evalModels, loading, error, updating,
                  fetchPending, store >>

\* A faulty variant of the rejected continuation: the local state is
\* updated although the call failed.
evalModelsUpdateCallRejected_WritesCache(i) ==
  /\ Pending(i)
  /\ evalModels' = setEvalModelsUpdater(evalModels, calls[i].modelId,
                                        calls[i].newDatasetKeys)
  /\ message' = [ message EXCEPT !.error = @ + 1 ]
  /\ updating' = NULL
  /\ calls' = [ calls EXCEPT ![i].status = "rejected" ]
  /\ UNCHANGED << accessToken, loading, error, fetchPending, store >>

\* Lines 119-124: the continuation after the call rejected (a transport
\* error, before or after the store applied the snapshot).
evalModelsUpdateCallRejected(i) ==
  /\ Pending(i)
  /\ message' = [ message EXCEPT !.error = @ + 1 ]
  /\ updating' = NULL
  /\ calls' = [ calls EXCEPT ![i].status = "rejected" ]
  /\ UNCHANGED << accessToken, evalModels, loading, error, fetchPending,
                  store >>

\* Lines 163-176: a click on the checkbox of row idx, column dataset.  The
\* checkbox is controlled, so the event carries the negation of what the
\* row shows.
CheckboxOnChange(idx, dataset) ==
  handleCheckboxChange(evalModels[idx].model_id, dataset,
                       ~Includes(evalModels[idx].dataset_keys, dataset))

\* --------------------------------------------------------- external store
\* The snapshot-based update: the payload replaces the whole collection;
\* each row is keyed by model name.
StoreReplace(payload) ==
  [ n \in ModelNames |->
      LET I == { i \in DOMAIN payload : payload[i].model_id = n }
      IN  IF I = {} THEN << >>
          ELSE payload[CHOOSE i \in I : \A j \in I : j <= i].dataset_keys ]

\* The store applies the snapshot of call i.
StoreApply(i) ==
  /\ Pending(i)
  /\ calls[i].applied = 0
  /\ store' = StoreReplace(calls[i].modelsData)
  /\ calls' = [ calls EXCEPT ![i].applied = Cardinality(Applied) + 1 ]
  /\ UNCHANGED << accessToken, evalModels, loading, error, updating,
                  fetchPending, message >>

\* The configuration the store returns to a fetch: one row per model,
\* keyed by id, with the keys stored under the model's name.
StoreRows ==
  [ i \in DOMAIN ServerModels |->
      [ model_id     |-> ServerModels[i].model_id,
        model_name   |-> ServerModels[i].model_name,
        dataset_keys |-> store[ServerModels[i].model_name] ] ]

\* --------------------------------------------------------- fetchEvalModels
\* Lines 56-58: the fetch resolved; `data || []` turns an absent body into
\* the empty list.
fetchEvalModelsResolved(data) ==
  /\ fetchPending
  /\ evalModels' = data
  /\ loading' = FALSE
  /\ fetchPending' = FALSE
  /\ UNCHANGED << accessToken, error, updating, calls, message, store >>

\* The catch block without setLoading(false).
fetchEvalModelsRejected_KeepsLoading ==
  /\ fetchPending
  /\ error' = "FetchError"
  /\ fetchPending' = FALSE
  /\ UNCHANGED << accessToken, evalModels, loading, updating, calls, message, store >>

\* Lines 59-62: the fetch rejected.
fetchEvalModelsRejected ==
  /\ fetchPending
  /\ error' = "FetchError"
  /\ loading' = FALSE
  /\ fetchPending' = FALSE
  /\ UNCHANGED << accessToken, evalModels, updating, calls, message, store >>

\* ================================================== IdentityEvalChart
\* ------------------------------------------------------------ date keys
\* A key of evalData is a string: two padded dates, a date that is not
\* padded, and a string that is no date.
Key_2024_01_02 == "2024-01-02"

Key_2024_01_10 == "2024-01-10"

Key_2024_1_5 == "2024-1-5"

Key_n_a == "n/a"

DateKeys == { Key_2024_01_02, Key_2024_01_10, Key_2024_1_5, Key_n_a }

\* The characters of a key, so that parsing it and comparing it with another
\* are computed from what it spells.
Characters(key) ==
  CASE key = Key_2024_01_02 -> << "2", "0", "2", "4", "-", "0", "1", "-", "0", "2" >>
    [] key = Key_2024_01_10 -> << "2", "0", "2", "4", "-", "0", "1", "-", "1", "0" >>
    [] key = Key_2024_1_5 -> << "2", "0", "2", "4", "-", "1", "-", "5" >>
    [] key = Key_n_a -> << "n", "/", "a" >>

Digits == << "0", "1", "2", "3", "4", "5", "6", "7", "8", "9" >>

IsDigit(c) == c \in Range(Digits)

DigitValue(c) == CHOOSE d \in 0..9 : Digits[d + 1] = c

\* The UTF-16 code unit of a character (what the default sort compares).
CharCode(c) ==
  CASE c = "-" -> 45
    [] c = "/" -> 47
    [] IsDigit(c) -> 48 + DigitValue(c)
    [] c = "a" -> 97
    [] c = "n" -> 110

\* a < b for two sequences of characters.
RECURSIVE LexLess(_, _)
LexLess(a, b) ==
  IF b = << >> THEN FALSE
  ELSE IF a = << >> THEN TRUE
  ELSE IF CharCode(Head(a)) # CharCode(Head(b))
       THEN CharCode(Head(a)) < CharCode(Head(b))
  ELSE LexLess(Tail(a), Tail(b))

\* a < b for two keys.
StringLess(a, b) == LexLess(Characters(a), Characters(b))

RECURSIVE ParseDigits(_)
ParseDigits(cs) ==
  IF cs = << >> THEN 0
  ELSE ParseDigits(SubSeq(cs, 1, Len(cs) - 1)) * 10 + DigitValue(cs[Len(cs)])

\* The parts of a string between its "-" characters.
RECURSIVE SplitDash(_)
SplitDash(cs) ==
  IF cs = << >> THEN << << >> >>
  ELSE LET rest == SplitDash(Tail(cs))
       IN  IF Head(cs) = "-" THEN << << >> >> \o rest
           ELSE << << Head(cs) >> \o Head(rest) >> \o Tail(rest)

\* Not-a-number, and a number: the two kinds of value getTime returns.
NaN == << >>

Num(n) == << n >>

\* new Date(key).getTime() for a year-month-day string, padded or not, in
\* days (the time of day the engine gives a date-only string is less than a
\* day and is dropped); NaN for any other string.
DateGetTime(key) ==
  LET parts == SplitDash(Characters(key))
      wellFormed == /\ Len(parts) = 3
                    /\ \A i \in 1..3 : /\ parts[i] # << >>
                                       /\ \A j \in DOMAIN parts[i] : IsDigit(parts[i][j])
      y == ParseDigits(parts[1])
      m == ParseDigits(parts[2])
      d == ParseDigits(parts[3])
  IN  IF wellFormed /\ m \in 1..12 /\ d \in 1..31
      THEN Num((y * 12 + (m - 1)) * 31 + (d - 1))
      ELSE NaN

\* DateGetTime of every key, computed once.
getTime == [ key \in DateKeys |-> DateGetTime(key) ]

\* Lines 127-129: (a, b) => new Date(a).getTime() - new Date(b).getTime().
\* A subtraction with NaN on either side is NaN.
compareDates(a, b) ==
  IF getTime[a] = NaN \/ getTime[b] = NaN
  THEN NaN
  ELSE Num(getTime[a][1] - getTime[b][1])

\* What Array.prototype.sort makes of a comparator's result: NaN counts as 0.
SortCompare ==
  [ a \in DateKeys, b \in DateKeys |->
      IF compareDates(a, b) = NaN THEN 0 ELSE compareDates(a, b)[1] ]

\* ----------------------------------------------------- Array.prototype.sort
\* The language fixes the result of sort only for a consistent comparator;
\* with NaN results the order is the engine's.  Two stable sorts are
\* modelled: the insertion sort of a run-detecting merge sort on a short
\* array (binary insertion after the first run), and a plain insertion sort.
Engines == { "binaryInsertion", "insertion" }

Reverse(s) == [ i \in 1..Len(s) |-> s[Len(s) + 1 - i] ]

\* The length of the run the array starts with: descending when the second
\* element compares below the first, else non-descending.
CountRun(s, cmp) ==
  LET isDescending == cmp[s[2], s[1]] < 0
      Continues(idx) == IF isDescending THEN cmp[s[idx], s[idx - 1]] < 0
                        ELSE cmp[s[idx], s[idx - 1]] >= 0
  IN  CHOOSE r \in 2..Len(s) :
        /\ \A idx \in 3..r : Continues(idx)
        /\ r < Len(s) => ~Continues(r + 1)

MakeRun(s, cmp) ==
  IF cmp[s[2], s[1]] < 0
  THEN Reverse(SubSeq(s, 1, CountRun(s, cmp))) \o SubSeq(s, CountRun(s, cmp) + 1, Len(s))
  ELSE s

\* Where pivot goes in s[left .. right-1].
RECURSIVE BinarySearch(_, _, _, _, _)
BinarySearch(s, pivot, left, right, cmp) ==
  IF left >= right THEN left
  ELSE LET mid == left + ((right - left) \div 2)
       IN  IF cmp[pivot, s[mid]] < 0
           THEN BinarySearch(s, pivot, left, mid, cmp)
           ELSE BinarySearch(s, pivot, mid + 1, right, cmp)

RECURSIVE BinaryInsertionSort(_, _, _)
BinaryInsertionSort(s, start, cmp) ==
  IF start > Len(s) THEN s
  ELSE LET left == BinarySearch(s, s[start], 1, start, cmp)
           moved == SubSeq(s, 1, left - 1) \o << s[start] >>
                      \o SubSeq(s, left, start - 1)
                      \o SubSeq(s, start + 1, Len(s))
       IN  BinaryInsertionSort(moved, start + 1, cmp)

RECURSIVE InsertionSort(_, _)
InsertionSort(s, cmp) ==
  IF s = << >> THEN << >>
  ELSE LET sorted == InsertionSort(SubSeq(s, 1, Len(s) - 1), cmp)
           x == s[Len(s)]
           notAbove == { k \in DOMAIN sorted : cmp[sorted[k], x] <= 0 }
           j == IF notAbove = {} THEN 0
                ELSE CHOOSE k \in notAbove : \A l \in notAbove : l <= k
       IN  SubSeq(sorted, 1, j) \o << x >> \o SubSeq(sorted, j + 1, Len(sorted))

ArraySort(s, cmp, eng) ==
  IF Len(s) < 2 THEN s
  ELSE IF eng = "binaryInsertion"
       THEN BinaryInsertionSort(MakeRun(s, cmp), CountRun(s, cmp) + 1, cmp)
       ELSE InsertionSort(s, cmp)

\* ------------------------------------------------------- evaluation results
\* evalData is an object: its entries are kept in the order Object.keys
\* lists them (the order the keys were inserted in, none being an integer).
\* A result carries the three fields processChartData reads; a score is in
\* tenths (8 is 0.8).

\* The values of selectedDataset: no filter, a dataset the results have, and
\* a dataset no result has.
DatasetFilters == { "all", "AIME25", "GPQA_DIAMOND" }

\* What one date may hold: nothing; one result; two datasets with a score of
\* 0; the same dataset twice; another model's result before one of "m1".
ResultLists ==
  { << >>,
    << [model_id |-> "m1", dataset_key |-> "AIME24", score |-> 8] >>,
    << [model_id |-> "m1", dataset_key |-> "AIME25", score |-> 0],
       [model_id |-> "m1", dataset_key |-> "AIME24", score |-> 5] >>,
    << [model_id |-> "m1", dataset_key |-> "AIME24", score |-> 5],
       [model_id |-> "m1", dataset_key |-> "AIME24", score |-> 8] >>,
    << [model_id |-> "m2", dataset_key |-> "AIME24", score |-> 5],
       [model_id |-> "m1", dataset_key |-> "AIME25", score |-> 8] >> }

\* The responses of identityEvalCall: up to MaxDates distinct keys in any
\* order, each with one of the result lists.
EvalDataInputs ==
  UNION { { [ i \in 1..n |-> [date |-> ds[i], results |-> rs[i]] ] :
              ds \in { d \in [1..n -> DateKeys] :
                         \A i, j \in 1..n : i # j => d[i] # d[j] },
              rs \in [1..n -> ResultLists] } :
          n \in 0..MaxDates }

ObjectKeys(obj) == [ i \in 1..Len(obj) |-> obj[i].date ]

\* obj[key]
Get(obj, key) == obj[CHOOSE i \in DOMAIN obj : obj[i].date = key].results

\* The marker of a slot that has no score (null), and a slot with a score.
NoScore == << >>

Score(x) == << x >>

\* --------------------------------------------------------- processChartData
\* Object.keys(evalData).sort(): no comparator, the keys in code-unit order.
sortedDates_DefaultSort(data, eng) ==
  ArraySort(ObjectKeys(data),
            [ a \in DateKeys, b \in DateKeys |->
                IF a = b THEN 0 ELSE IF StringLess(a, b) THEN -1 ELSE 1 ],
            eng)

\* Lines 127-129.
sortedDates(data, eng) ==
  ArraySort(ObjectKeys(data), SortCompare, eng)

\* The condition without its test of the model.
PassesFilter_IgnoresModel(result, modelId, dataset) ==
  dataset = "all" \/ result.dataset_key = dataset

\* Lines 146-149 and 164-167: the condition both passes test.
PassesFilter(result, modelId, dataset) ==
  /\ result.model_id = modelId
  /\ (dataset = "all" \/ result.dataset_key = dataset)

\* The order the two nested forEach visit the results in: the first n dates
\* of the axis in turn, the results of a date in their order.
RECURSIVE ForEachResult(_, _, _)
ForEachResult(data, dates, n) ==
  IF n = 0 THEN << >>
  ELSE ForEachResult(data, dates, n - 1)
         \o [ k \in 1..Len(Get(data, dates[n])) |->
                [dateIndex |-> n, result |-> Get(data, dates[n])[k]] ]

MapHas(seriesMap, key) == \E i \in DOMAIN seriesMap : seriesMap[i].datasetKey = key

\* The first pass with fill(0) for fill(null).
RECURSIVE CreateSeries_ZeroFilled(_, _, _, _, _)
CreateSeries_ZeroFilled(visits, n, modelId, dataset, length) ==
  IF n = 0 THEN << >>
  ELSE LET seriesMap == CreateSeries_ZeroFilled(visits, n - 1, modelId, dataset, length)
           result == visits[n].result
       IN  IF /\ PassesFilter(result, modelId, dataset)
              /\ ~MapHas(seriesMap, result.dataset_key)
           THEN Append(seriesMap,
                       [ name |-> result.dataset_key,
                         data |-> [ i \in 1..length |-> Score(0) ],
                         datasetKey |-> result.dataset_key ])
           ELSE seriesMap

\* Lines 143-159: the first pass over the first n visits; a Map keeps its
\* entries in insertion order.
RECURSIVE CreateSeries(_, _, _, _, _)
CreateSeries(visits, n, modelId, dataset, length) ==
  IF n = 0 THEN << >>
  ELSE LET seriesMap == CreateSeries(visits, n - 1, modelId, dataset, length)
           result == visits[n].result
       IN  IF /\ PassesFilter(result, modelId, dataset)
              /\ ~MapHas(seriesMap, result.dataset_key)
           THEN Append(seriesMap,
                       [ name |-> result.dataset_key,
                         data |-> [ i \in 1..length |-> NoScore ],
                         datasetKey |-> result.dataset_key ])
           ELSE seriesMap

\* The second pass writing a slot only while it has no score.
RECURSIVE FillSeries_FirstWins(_, _, _, _, _)
FillSeries_FirstWins(visits, n, modelId, dataset, created) ==
  IF n = 0 THEN created
  ELSE LET seriesMap == FillSeries_FirstWins(visits, n - 1, modelId, dataset, created)
           result == visits[n].result
       IN  IF /\ PassesFilter(result, modelId, dataset)
              /\ MapHas(seriesMap, result.dataset_key)
           THEN [ i \in DOMAIN seriesMap |->
                    IF /\ seriesMap[i].datasetKey = result.dataset_key
                       /\ seriesMap[i].data[visits[n].dateIndex] = NoScore
                    THEN [ seriesMap[i] EXCEPT
                             !.data[visits[n].dateIndex] = Score(result.score) ]
                    ELSE seriesMap[i] ]
           ELSE seriesMap

\* Lines 162-174: the second pass over the first n visits.
RECURSIVE FillSeries(_, _, _, _, _)
FillSeries(visits, n, modelId, dataset, created) ==
  IF n = 0 THEN created
  ELSE LET seriesMap == FillSeries(visits, n - 1, modelId, dataset, created)
           result == visits[n].result
       IN  IF /\ PassesFilter(result, modelId, dataset)
              /\ MapHas(seriesMap, result.dataset_key)
           THEN [ i \in DOMAIN seriesMap |->
                    IF seriesMap[i].datasetKey = result.dataset_key
                    THEN [ seriesMap[i] EXCEPT
                             !.data[visits[n].dateIndex] = Score(result.score) ]
                    ELSE seriesMap[i] ]
           ELSE seriesMap

\* The Builder with its series in the reverse of the order the Map gives.
processChartData_SeriesReversed(data, dataset, modelId, eng) ==
  IF Len(ObjectKeys(data)) = 0
  THEN [ dates |-> << >>, series |-> << >> ]
  ELSE LET dates == sortedDates(data, eng)
           visits == ForEachResult(data, dates, Len(dates))
           created == CreateSeries(visits, Len(visits), modelId, dataset, Len(dates))
       IN  [ dates |-> dates,
             series |-> Reverse(FillSeries(visits, Len(visits), modelId, dataset, created)) ]

\* Lines 108-178.
processChartData(data, dataset, modelId, eng) ==
  IF Len(ObjectKeys(data)) = 0
  THEN [ dates |-> << >>, series |-> << >> ]
  ELSE LET dates == sortedDates(data, eng)
           visits == ForEachResult(data, dates, Len(dates))
           created == CreateSeries(visits, Len(visits), modelId, dataset, Len(dates))
       IN  [ dates |-> dates,
             series |-> FillSeries(visits, Len(visits), modelId, dataset, created) ]

\* ------------------------------------------------------------------ actions
\* No chart is on the page.
NoCharts == [ modelId \in {} |-> {} ]

\* Lines 88-94: the models that have a result.
allModelIds(data) ==
  UNION { { data[i].results[k].model_id : k \in DOMAIN data[i].results } :
          i \in DOMAIN data }

\* Lines 181-269: the effect that runs after each render with new evalData
\* or a new selectedDataset gives the chart of every model the data
\* processChartData returns for it.
updateCharts(data, dataset, eng) ==
  [ modelId \in allModelIds(data) |-> processChartData(data, dataset, modelId, eng) ]

\* Lines 69-71: identityEvalCall resolved; the results are rendered.
fetchEvalDataResolved(data) ==
  /\ chartFetchPending
  /\ chartFetchPending' = FALSE
  /\ evalData' = data
  /\ chartLoading' = FALSE
  /\ charts' = updateCharts(data, selectedDataset, engine)
  /\ UNCHANGED << chartError, selectedDataset, engine >>
  /\ UNCHANGED panelVars

\* Lines 72-79: identityEvalCall rejected.
fetchEvalDataRejected ==
  /\ chartFetchPending
  /\ chartFetchPending' = FALSE
  /\ chartError' = "FetchError"
  /\ chartLoading' = FALSE
  /\ UNCHANGED << evalData, selectedDataset, charts, engine >>
  /\ UNCHANGED panelVars

\* Line 56: the setter of the dataset filter; the charts are given their
\* data anew.
setSelectedDataset(dataset) ==
  /\ dataset # selectedDataset
  /\ selectedDataset' = dataset
  /\ charts' = updateCharts(evalData, dataset, engine)
  /\ UNCHANGED << evalData, chartLoading, chartError, chartFetchPending, engine >>
  /\ UNCHANGED panelVars

\* ------------------------------------------------------------ specification
\* The chart is not on the page.
ChartNotMounted ==
  /\ evalData = << >>
  /\ chartLoading = TRUE
  /\ chartError = NULL
  /\ chartFetchPending = FALSE
  /\ selectedDataset = "all"
  /\ charts = NoCharts
  /\ engine = "binaryInsertion"

\* Lines 48-51 and 65-67: the state after mounting; the effect issues the
\* fetch when there is an access token.
Init ==
  /\ ChartNotMounted
  /\ accessToken \in AccessTokens
  /\ evalModels = << >>
  /\ loading = TRUE
  /\ error = NULL
  /\ updating = NULL
  /\ fetchPending = (accessToken # NULL)
  /\ calls = << >>
  /\ message = [ success |-> 0, error |-> 0 ]
  /\ store \in [ ModelNames -> InitialKeySeqs ]

\* The arguments the handler is tried with: every id of a model, and one id
\* no model has.
ModelIdInputs == { ServerModels[i].model_id : i \in DOMAIN ServerModels }
                   \cup { UnknownModelId }

\* The handler as an operation, tried with every argument.
Next ==
  \/ /\ \E data \in { << >>, StoreRows } : fetchEvalModelsResolved(data)
     /\ UNCHANGED chartVars
  \/ /\ fetchEvalModelsRejected
     /\ UNCHANGED chartVars
  \/ /\ Len(calls) < MaxCalls
     /\ \E modelId \in ModelIdInputs, datasetKey \in ToggleKeys, checked \in BOOLEAN :
          handleCheckboxChange(modelId, datasetKey, checked)
     /\ UNCHANGED chartVars
  \/ /\ \E i \in DOMAIN calls : StoreApply(i)
     /\ UNCHANGED chartVars
  \/ /\ \E i \in DOMAIN calls : evalModelsUpdateCallResolved(i)
     /\ UNCHANGED chartVars
  \/ /\ \E i \in DOMAIN calls : evalModelsUpdateCallRejected(i)
     /\ UNCHANGED chartVars

Spec == Init /\ [][Next]_vars

\* The handler as the rendered table calls it: only from the checkboxes of
\* the rows of evalModels.
NextUI ==
  \/ /\ \E data \in { << >>, StoreRows } : fetchEvalModelsResolved(data)
     /\ UNCHANGED chartVars
  \/ /\ fetchEvalModelsRejected
     /\ UNCHANGED chartVars
  \/ /\ Len(calls) < MaxClicks
     /\ \E idx \in DOMAIN evalModels, dataset \in ToggleKeys :
          CheckboxOnChange(idx, dataset)
     /\ UNCHANGED chartVars
  \/ /\ \E i \in DOMAIN calls : StoreApply(i)
     /\ UNCHANGED chartVars
  \/ /\ \E i \in DOMAIN calls : evalModelsUpdateCallResolved(i)
     /\ UNCHANGED chartVars
  \/ /\ \E i \in DOMAIN calls : evalModelsUpdateCallRejected(i)
     /\ UNCHANGED chartVars

SpecUI == Init /\ [][NextUI]_vars

\* The panel is not on the page.
PanelNotMounted ==
  /\ evalModels = << >>
  /\ loading = TRUE
  /\ error = NULL
  /\ updating = NULL
  /\ fetchPending = FALSE
  /\ calls = << >>
  /\ message = [ success |-> 0, error |-> 0 ]
  /\ store = [ name \in ModelNames |-> << >> ]

\* Lines 53-60 and 63-82: the chart after mounting; the effect sets loading
\* and issues the fetch when there is an access token.
InitChart ==
  /\ PanelNotMounted
  /\ accessToken \in AccessTokens
  /\ evalData = << >>
  /\ chartLoading = TRUE
  /\ chartError = NULL
  /\ chartFetchPending = (accessToken # NULL)
  /\ selectedDataset = "all"
  /\ charts = NoCharts
  /\ engine \in Engines

\* The chart: the fetch returns, the filter is set.
NextChart ==
  \/ /\ chartFetchPending
     /\ \E data \in EvalDataInputs : fetchEvalDataResolved(data)
  \/ fetchEvalDataRejected
  \/ \E dataset \in DatasetFilters : setSelectedDataset(dataset)

SpecChart == InitChart /\ [][NextChart]_vars

\* ------------------------------------------------------------------ claims
\* The calls on the model of row k of the cache that resolved after call i
\* started.
ResolvedSince(i, k) ==
  { j \in ResolvedSet \ calls[i].prior :
      calls[j].modelId = calls[i].evalModels[k].model_id }

\* Call i changes the selection of its model.
Effective(i) ==
  calls[i].newDatasetKeys # KeysOf(calls[i].evalModels, calls[i].modelId)

\* C1: when the update call of a toggle fails, the continuation leaves the
\* whole cache as it is and reports an error; every row on whose model no
\* other toggle was confirmed since the toggle started still holds the value
\* it had when the toggle started (the toggled model's row included).
C1_FailureLeavesCache ==
  [][ \A i \in DOMAIN calls :
        (Pending(i) /\ calls'[i].status = "rejected") =>
          /\ evalModels' = evalModels
          /\ \A k \in DOMAIN evalModels' :
               ResolvedSince(i, k) = {} => evalModels'[k] = calls[i].evalModels[k]
          /\ message'.error = message.error + 1
          /\ message'.success = message.success ]_vars

\* A toggle that would have changed ["AIME24"] failed, and the cache is the
\* one the toggle started from.
C1_Witness ==
  \E i \in DOMAIN calls :
    /\ Rejected(i)
    /\ Effective(i)
    /\ KeysOf(calls[i].evalModels, calls[i].modelId) = << "AIME24" >>
    /\ evalModels = calls[i].evalModels
    /\ message.error = 1

\* C2: when the update call of a toggle succeeds, the row of the toggled
\* model holds the computed keys (as a set: the pre-toggle keys plus the key
\* when checked, minus the key when not checked), and every other row is
\* what it was just before, also when it was changed by another toggle
\* confirmed while this one was in flight.
C2_SuccessSetsOnlyThatRow ==
  [][ \A i \in DOMAIN calls :
        (Pending(i) /\ calls'[i].status = "resolved") =>
          LET pre == Range(KeysOf(calls[i].evalModels, calls[i].modelId)) IN
          /\ DOMAIN evalModels' = DOMAIN evalModels
          /\ \A k \in DOMAIN evalModels :
               IF evalModels[k].model_id = calls[i].modelId
                 THEN /\ evalModels'[k].model_id = evalModels[k].model_id
                      /\ evalModels'[k].model_name = evalModels[k].model_name
                      /\ evalModels'[k].dataset_keys = calls[i].newDatasetKeys
                 ELSE evalModels'[k] = evalModels[k]
          /\ Range(calls[i].newDatasetKeys) =
               IF calls[i].checked THEN pre \cup { calls[i].datasetKey }
                                   ELSE pre \ { calls[i].datasetKey } ]_vars

\* Two toggles on different models were in flight together, both changed
\* something, both were confirmed, and the cache holds both changes.
C2_Witness ==
  \E i, j \in DOMAIN calls :
    /\ i < j
    /\ Resolved(i) /\ Resolved(j)
    /\ i \notin calls[j].prior
    /\ calls[i].modelId # calls[j].modelId
    /\ Effective(i) /\ Effective(j)
    /\ KeysOf(evalModels, calls[i].modelId) = calls[i].newDatasetKeys
    /\ KeysOf(evalModels, calls[j].modelId) = calls[j].newDatasetKeys

\* C3: a run of the handler on a model of the cache (the only step that sets
\* the marker) issues exactly one update call, and no other step issues
\* one; its payload has one row per
\* cached model, in cache order, keyed by the model's name, the toggled
\* model's row with the new keys and every other row with the cached keys.
C3_OneCallFullSnapshot ==
  [][ /\ Len(calls') # Len(calls) => (updating' # NULL /\ updating' # updating)
      /\ (updating' # NULL /\ updating' # updating) =>
        /\ Len(calls') = Len(calls) + 1
        /\ \A i \in DOMAIN calls : calls'[i] = calls[i]
        /\ LET c == calls'[Len(calls')] IN
           /\ c.modelId = updating'
           /\ c.status = "pending"
           /\ c.newDatasetKeys =
                newDatasetKeys(KeysOf(evalModels, c.modelId), c.datasetKey, c.checked)
           /\ Len(c.modelsData) = Len(evalModels)
           /\ \A k \in DOMAIN evalModels :
                /\ c.modelsData[k].model_id = evalModels[k].model_name
                /\ c.modelsData[k].model_id # evalModels[k].model_id
                /\ c.modelsData[k].dataset_keys =
                     IF evalModels[k].model_id = c.modelId
                       THEN c.newDatasetKeys
                       ELSE evalModels[k].dataset_keys ]_vars

\* Scenario C, with a second model whose row was changed by an earlier
\* confirmed toggle: AIME25 is toggled on for m2 = "gpt-x", which had
\* ["AIME24"], and the payload carries the other model's current keys.
C3_Witness ==
  \E i \in DOMAIN calls :
    /\ Pending(i)
    /\ calls[i].modelId = "m2" /\ calls[i].datasetKey = "AIME25" /\ calls[i].checked
    /\ calls[i].modelsData[2] =
         [ model_id |-> "gpt-x", dataset_keys |-> << "AIME24", "AIME25" >> ]
    /\ \E j \in calls[i].prior :
         /\ calls[j].modelId = "m1" /\ Effective(j)
         /\ calls[i].modelsData[1] =
              [ model_id |-> "gpt-a", dataset_keys |-> calls[j].newDatasetKeys ]

\* C4: at most one update for a given model is in flight.
C4_OneInFlightPerModel ==
  \A i, j \in InFlight : calls[i].modelId = calls[j].modelId => i = j

\* C5: the continuation of a toggle clears the marker whether the call
\* resolved or rejected, a run of the handler that issues no call (model
\* not found) leaves the marker empty, and whenever no toggle is in flight
\* the marker is empty (so every checkbox of the rendered table is enabled).
C5_MarkerReleased ==
  [][ /\ \A i \in DOMAIN calls :
           (Pending(i) /\ calls'[i].status # "pending") => updating' = NULL
      /\ (updating' # updating /\ Len(calls') = Len(calls)) => updating' = NULL
      /\ (InFlight = {})' => (updating = NULL)' ]_vars

\* One toggle was confirmed and one failed, none is in flight, and the
\* marker is empty.
C5_Witness ==
  /\ \E i \in DOMAIN calls : Resolved(i)
  /\ \E i \in DOMAIN calls : Rejected(i)
  /\ InFlight = {}
  /\ updating = NULL
  /\ \A k \in DOMAIN evalModels : CheckboxEnabled(evalModels[k].model_id)

\* While call i is pending, every row on whose model no other toggle was
\* confirmed since call i started holds the value call i started from.
PendingSeesPreToggle ==
  \A i \in InFlight :
    \A k \in DOMAIN evalModels :
      ResolvedSince(i, k) = {} => evalModels[k] = calls[i].evalModels[k]

\* C6: read-then-confirm.  The cache changes only in the continuation of a
\* resolved update call (or when the fetch returns); the step that computes
\* the new keys, builds the snapshot and dispatches the call leaves it
\* alone, and the snapshot it dispatches carries the keys it computed; while
\* a call is pending the toggled row holds its pre-toggle value unless
\* another toggle on that model was confirmed meanwhile.
C6_ReadThenConfirm ==
  [][ /\ evalModels' # evalModels =>
           \/ fetchPending /\ ~fetchPending'
           \/ \E i \in DOMAIN calls :
                /\ Pending(i) /\ calls[i].applied # 0
                /\ calls'[i].status = "resolved"
      /\ Len(calls') # Len(calls) =>
           LET c == calls'[Len(calls')] IN
           /\ evalModels' = evalModels
           /\ c.evalModels = evalModels
           /\ \E k \in DOMAIN c.modelsData :
                /\ evalModels[k].model_id = c.modelId
                /\ c.modelsData[k].dataset_keys = c.newDatasetKeys
      /\ PendingSeesPreToggle' ]_vars

\* A toggle that changes its row is pending, the store has already applied
\* its snapshot, and the cache still holds the pre-toggle row.
C6_Witness ==
  \E i \in InFlight :
    /\ Effective(i)
    /\ calls[i].applied # 0
    /\ store[calls[i].evalModels[FindIndex(evalModels, calls[i].modelId)].model_name]
         = calls[i].newDatasetKeys
    /\ KeysOf(evalModels, calls[i].modelId)
         = KeysOf(calls[i].evalModels, calls[i].modelId)

\* C7: when no update is in flight and every issued update succeeded, the
\* cached keys of every model equal, as a set, the keys the store holds
\* under the model's name.
C7_CacheReconciles ==
  (InFlight = {} /\ \A i \in DOMAIN calls : Resolved(i)) =>
    \A k \in DOMAIN evalModels :
      Range(evalModels[k].dataset_keys) = Range(store[evalModels[k].model_name])

\* The name the store knows the model of call i by.
NameOf(i) ==
  calls[i].evalModels[FindIndex(calls[i].evalModels, calls[i].modelId)].model_name

\* Calls i and j were in flight together.
Overlap(i, j) == i \notin calls[j].prior /\ j \notin calls[i].prior

\* Calls i and j are the race: toggles on two different models, in flight
\* together, built from the same cache, both confirmed, the store applied
\* i's snapshot before j's, and j's was the last one it applied.
Race(i, j) ==
  /\ i # j
  /\ calls[i].modelId # calls[j].modelId
  /\ Overlap(i, j)
  /\ calls[i].evalModels = calls[j].evalModels
  /\ Resolved(i) /\ Resolved(j)
  /\ calls[i].applied < calls[j].applied
  /\ calls[j].applied = Cardinality(Applied)

\* C8: the known race.  Whenever two toggles race, the store is left with
\* the pre-toggle keys of the model whose snapshot was written first: the
\* change of that toggle is not in the store.
C8_RaceLosesFirstWrite ==
  \A i, j \in DOMAIN calls :
    Race(i, j) =>
      store[NameOf(i)] = KeysOf(calls[i].evalModels, calls[i].modelId)

\* The race happened with two toggles that each change their row and no
\* failed call: the cache holds both changes, the store only the second.
C8_Witness ==
  \E i, j \in DOMAIN calls :
    /\ Race(i, j)
    /\ Effective(i) /\ Effective(j)
    /\ InFlight = {}
    /\ \A c \in DOMAIN calls : Resolved(c)
    /\ KeysOf(evalModels, calls[i].modelId) = calls[i].newDatasetKeys
    /\ KeysOf(evalModels, calls[j].modelId) = calls[j].newDatasetKeys
    /\ store[NameOf(j)] = calls[j].newDatasetKeys
    /\ Range(store[NameOf(i)]) # Range(calls[i].newDatasetKeys)

\* Call j toggles off the key that call i toggled on: same model, same key,
\* the key was not selected before i, i was confirmed before j started, and
\* j started from the keys i computed.
OnThenOff(i, j) ==
  /\ calls[i].modelId = calls[j].modelId
  /\ calls[i].datasetKey = calls[j].datasetKey
  /\ calls[i].checked /\ ~calls[j].checked
  /\ ~Includes(KeysOf(calls[i].evalModels, calls[i].modelId), calls[i].datasetKey)
  /\ i \in calls[j].prior
  /\ KeysOf(calls[j].evalModels, calls[j].modelId) = calls[i].newDatasetKeys

\* C9: toggle round-trip.  When the toggle-off of an on-then-off pair is
\* confirmed, the cached keys of the model equal, as a set, the keys the
\* model had before the toggle-on.
C9_RoundTrip ==
  [][ \A i, j \in DOMAIN calls :
        (OnThenOff(i, j) /\ Pending(j) /\ calls'[j].status = "resolved") =>
          Range(KeysOf(evalModels', calls[j].modelId))
            = Range(KeysOf(calls[i].evalModels, calls[i].modelId)) ]_vars

\* AIME25 was toggled on and then off for a model that had ["AIME24"], both
\* toggles were confirmed, and the model has ["AIME24"] again.
C9_Witness ==
  \E i, j \in DOMAIN calls :
    /\ OnThenOff(i, j)
    /\ Resolved(j)
    /\ calls[i].datasetKey = "AIME25"
    /\ KeysOf(calls[i].evalModels, calls[i].modelId) = << "AIME24" >>
    /\ calls[i].newDatasetKeys = << "AIME24", "AIME25" >>
    /\ KeysOf(evalModels, calls[j].modelId) = << "AIME24" >>

\* C10: the cached dataset_keys of every model have no duplicate and are
\* keys of the catalog.
C10_KeysAreACatalogSet ==
  \A k \in DOMAIN evalModels :
    /\ NoDuplicates(evalModels[k].dataset_keys)
    /\ Range(evalModels[k].dataset_keys) \subseteq Catalog

\* A key the model already had was toggled on again, the toggle was
\* confirmed, and the row holds that key once.
C10_Witness ==
  \E i \in DOMAIN calls :
    /\ Resolved(i)
    /\ calls[i].checked
    /\ Includes(KeysOf(calls[i].evalModels, calls[i].modelId), calls[i].datasetKey)
    /\ Includes(KeysOf(evalModels, calls[i].modelId), calls[i].datasetKey)
    /\ Len(KeysOf(evalModels, calls[i].modelId)) = 2
\* ------------------------------------------------- claims on the chart
\* Every key of evalData parses as a date.
AllKeysParse == \A i \in DOMAIN evalData : getTime[evalData[i].date] # NaN

\* s is in ascending order of calendar date.
AscendingByDate(s) ==
  \A i, j \in DOMAIN s :
    i < j => getTime[s[i]][1] <= getTime[s[j]][1]

\* C11: for non-empty evalData the dates given to a chart are exactly the
\* keys of evalData, each once, in ascending order of calendar date whatever
\* their lexical order; and the axis is the same for every model and every
\* dataset filter: a chart given data under another filter keeps its dates.
C11_DatesAreKeysByCalendar ==
  [][ evalData' # << >> =>
        \A modelId \in DOMAIN charts' :
          /\ Len(charts'[modelId].dates) = Len(evalData')
          /\ Range(charts'[modelId].dates) = Range(ObjectKeys(evalData'))
          /\ \A i, j \in DOMAIN charts'[modelId].dates :
               i # j => charts'[modelId].dates[i] # charts'[modelId].dates[j]
          /\ AllKeysParse' => AscendingByDate(charts'[modelId].dates)
          /\ \A other \in DOMAIN charts' :
               charts'[other].dates = charts'[modelId].dates
          /\ modelId \in DOMAIN charts =>
               charts'[modelId].dates = charts[modelId].dates ]_vars

\* The keys arrive in lexical order, which is not their calendar order, and
\* the filter lets no result through: the axis is in calendar order.
C11_Witness ==
  /\ ObjectKeys(evalData) = << Key_2024_01_02, Key_2024_01_10, Key_2024_1_5 >>
  /\ StringLess(Key_2024_01_10, Key_2024_1_5)
  /\ selectedDataset = "GPQA_DIAMOND"
  /\ "m1" \in DOMAIN charts
  /\ charts["m1"].dates = << Key_2024_01_02, Key_2024_1_5, Key_2024_01_10 >>
  /\ charts["m1"].series = << >>

\* The results of evalData, each with the key it is filed under.
Filed ==
  UNION { { [ date |-> evalData[i].date, result |-> evalData[i].results[k] ] :
              k \in DOMAIN evalData[i].results } :
          i \in DOMAIN evalData }

\* The filed results of a model that the dataset filter lets through.
Passing(modelId) ==
  { x \in Filed :
      /\ x.result.model_id = modelId
      /\ selectedDataset \in { "all", x.result.dataset_key } }

\* C12: a chart has as many series as there are distinct dataset keys among
\* the results of its model that pass the dataset filter, one for each such
\* key; a dataset with no passing result has no series, so no series is
\* without a score, and a model with no passing result has no series.
C12_OneSeriesPerPassingKey ==
  \A modelId \in DOMAIN charts :
    LET series == charts[modelId].series
        keys == { x.result.dataset_key : x \in Passing(modelId) }
    IN  /\ Len(series) = Cardinality(keys)
        /\ { series[i].datasetKey : i \in DOMAIN series } = keys
        /\ \A i \in DOMAIN series :
             /\ series[i].name = series[i].datasetKey
             /\ \E d \in DOMAIN series[i].data : series[i].data[d] # NoScore

\* A model has results of two datasets and the filter lets one through: one
\* series; the other model has results, none of that dataset: no series.
C12_Witness ==
  /\ selectedDataset = "AIME25"
  /\ DOMAIN charts = { "m1", "m2" }
  /\ \E x \in Filed : x.result.model_id = "m1" /\ x.result.dataset_key = "AIME24"
  /\ \E x \in Filed : x.result.model_id = "m1" /\ x.result.dataset_key = "AIME25"
  /\ Len(charts["m1"].series) = 1
  /\ \E x \in Filed : x.result.model_id = "m2"
  /\ charts["m2"].series = << >>

\* The passing results of one series of a model on one date.
Hits(modelId, datasetKey, date) ==
  { x \in Passing(modelId) : x.date = date /\ x.result.dataset_key = datasetKey }

\* C13: the data of every series is as long as the date axis; the slot of a
\* date holds the score of a passing result of that series on that date, and
\* the no-score marker when there is none.  The marker is not a score: a slot
\* shows 0 only when a passing result scored 0.
C13_SlotsAlignWithDates ==
  \A modelId \in DOMAIN charts :
    \A i \in DOMAIN charts[modelId].series :
      /\ Len(charts[modelId].series[i].data) = Len(charts[modelId].dates)
      /\ \A d \in DOMAIN charts[modelId].dates :
           LET hits == Hits(modelId, charts[modelId].series[i].datasetKey,
                            charts[modelId].dates[d])
               slot == charts[modelId].series[i].data[d]
           IN  /\ hits = {} => slot = NoScore
               /\ hits # {} => \E x \in hits : slot = Score(x.result.score)
               /\ slot = Score(0) => \E x \in hits : x.result.score = 0

\* The later date is fetched first; a series scored 0 on the earlier date and
\* has no result on the later one, another has a score on both.
C13_Witness ==
  \E modelId \in DOMAIN charts :
    /\ Len(charts[modelId].dates) = 2
    /\ ObjectKeys(evalData) = << charts[modelId].dates[2], charts[modelId].dates[1] >>
    /\ \E i, j \in DOMAIN charts[modelId].series :
         /\ charts[modelId].series[i].data = << Score(0), NoScore >>
         /\ charts[modelId].series[j].data = << Score(5), Score(8) >>

\* Where on the axis, and where in the list of its date, the passing results
\* of a series of a model are.
Positions(modelId, datasetKey) ==
  UNION { { << d, k >> : k \in { k \in DOMAIN Get(evalData, charts[modelId].dates[d]) :
              LET result == Get(evalData, charts[modelId].dates[d])[k]
              IN  /\ result.dataset_key = datasetKey
                  /\ result.model_id = modelId
                  /\ selectedDataset \in { "all", datasetKey } } } :
          d \in DOMAIN charts[modelId].dates }

Precedes(p, q) == p[1] < q[1] \/ (p[1] = q[1] /\ p[2] < q[2])

FirstMet(modelId, datasetKey) ==
  CHOOSE p \in Positions(modelId, datasetKey) :
    \A q \in Positions(modelId, datasetKey) : p = q \/ Precedes(p, q)

\* C14: the series of a chart are in discovery order: a series comes before
\* another when its key is first met earlier, scanning the dates in axis
\* order and the results of a date in their input order.
C14_DiscoveryOrder ==
  \A modelId \in DOMAIN charts :
    \A i, j \in DOMAIN charts[modelId].series :
      i < j => Precedes(FirstMet(modelId, charts[modelId].series[i].datasetKey),
                        FirstMet(modelId, charts[modelId].series[j].datasetKey))

\* The first result of the response is of AIME25, on the later date; on the
\* axis AIME24 is met first.
C14_Witness ==
  /\ selectedDataset = "all"
  /\ evalData # << >>
  /\ evalData[1].results # << >>
  /\ evalData[1].results[1].dataset_key = "AIME25"
  /\ LET modelId == evalData[1].results[1].model_id
     IN  /\ evalData[1].date # charts[modelId].dates[1]
         /\ Len(charts[modelId].series) = 2
         /\ charts[modelId].series[1].datasetKey = "AIME24"
         /\ charts[modelId].series[2].datasetKey = "AIME25"

\* Where in the list of date d of the axis the passing results of a series
\* are.
PositionsOn(modelId, datasetKey, d) ==
  { p[2] : p \in { q \in Positions(modelId, datasetKey) : q[1] = d } }

\* C15: when several passing results of one date have the same series key,
\* the slot of that date holds the score of the last of them in the date's
\* list; every other slot holds the score of its only passing result, or the
\* no-score marker.
C15_LastResultWins ==
  \A modelId \in DOMAIN charts :
    \A i \in DOMAIN charts[modelId].series, d \in DOMAIN charts[modelId].dates :
      LET at == PositionsOn(modelId, charts[modelId].series[i].datasetKey, d)
          last == CHOOSE k \in at : \A l \in at : l <= k
      IN  charts[modelId].series[i].data[d] =
            IF at = {} THEN NoScore
            ELSE Score(Get(evalData, charts[modelId].dates[d])[last].score)

\* A date has the scores 5 and 8 for one series, in that order: its slot
\* holds 8, and the slot of another date still holds that date's 5.
C15_Witness ==
  \E modelId \in DOMAIN charts :
    \E i \in DOMAIN charts[modelId].series, d, e \in DOMAIN charts[modelId].dates :
      LET datasetKey == charts[modelId].series[i].datasetKey
      IN  /\ d # e
          /\ Cardinality(PositionsOn(modelId, datasetKey, d)) = 2
          /\ Get(evalData, charts[modelId].dates[d])[1].score = 5
          /\ Get(evalData, charts[modelId].dates[d])[2].score = 8
          /\ charts[modelId].series[i].data[d] = Score(8)
          /\ Cardinality(PositionsOn(modelId, datasetKey, e)) = 1
          /\ charts[modelId].series[i].data[e] = Score(5)

\* C18: when evalData has keys that do not parse as dates, every such key is
\* after all the valid dates on the axis, and the valid dates are in
\* ascending order among themselves.
C18_UnparsableKeysLast ==
  \A modelId \in DOMAIN charts :
    \A i, j \in DOMAIN charts[modelId].dates :
      LET dates == charts[modelId].dates
      IN  /\ (getTime[dates[i]] # NaN /\ getTime[dates[j]] = NaN) => i < j
          /\ (i < j /\ getTime[dates[i]] # NaN /\ getTime[dates[j]] # NaN)
               => getTime[dates[i]][1] <= getTime[dates[j]][1]

\* ------------------------------------------------- claims on the panel
\* C16: whenever an update is in flight the marker is not empty and names a
\* model that has an update in flight (a toggle started on, or completed
\* for, another model neither clears nor overwrites the marker of a model
\* whose update is pending).
C16_MarkerNamesInFlight ==
  InFlight # {} =>
    /\ updating # NULL
    /\ \E i \in InFlight : calls[i].modelId = updating

\* C17 as stated: the panel is in the loading state only while a fetch is
\* pending.
C17_LoadingOnlyWhilePending == loading => fetchPending

\* C17, amended: the return of the fetch ends the loading state on both
\* outcomes: on success the cache holds the fetched sequence (empty when the
\* response is empty), on failure the error state is set and the cache stays
\* empty; no further fetch is issued; the panel is in the loading state
\* while a fetch is pending and otherwise only when it was mounted without
\* an access token (no fetch is issued then).
C17_LoadingEndsWithFetch ==
  [][ /\ (fetchPending /\ ~fetchPending') =>
           /\ ~loading'
           /\ \/ error' = NULL /\ evalModels' \in { << >>, StoreRows }
              \/ error' # NULL /\ evalModels' = << >>
      /\ ~fetchPending => ~fetchPending'
      /\ (fetchPending => loading)'
      /\ (loading => (fetchPending \/ accessToken = NULL))'
      /\ (error # NULL => (evalModels = << >> /\ ~loading))' ]_vars

\* The fetch failed: the error is set, the loading state is over, the cache
\* is empty and no fetch is pending.
C17_Witness ==
  /\ accessToken # NULL
  /\ error # NULL
  /\ ~loading
  /\ evalModels = << >>
  /\ ~fetchPending

=============================================================================
